---- MODULE Spec2Model ----
(***************************************************************************)
(* Model of the Qt OpenGL display pipeline of mGBA,                        *)
(* src/platform/qt/DisplayGL.cpp: DisplayGL (the widget, living on the GUI *)
(* thread, which also delivers framePosted) and PainterGL (the worker that *)
(* owns the rendering context while a draw thread runs).                   *)
(*                                                                         *)
(* Two threads are modelled.  The GUI thread runs the DisplayGL methods;   *)
(* a method that uses Qt::BlockingQueuedConnection posts an event to the   *)
(* painter and waits until the painter's handler has returned.  The        *)
(* painter thread runs an event loop: posted events are handled in FIFO    *)
(* order, and the single-shot swap timer delivers timeout to swap().       *)
(* m_queue and m_free are shared.  enqueue, dequeue and dequeueAll are     *)
(* split inside their critical sections (enqueue before m_queue.enqueue,   *)
(* dequeue and dequeueAll at the postFrame call) and at their unlock, so   *)
(* that the other thread runs while the mutex is held and between the      *)
(* unlock and what the caller does next, as in the code.  draw() is split  *)
(* at the wait of mCoreSyncWaitFrameStart and swap() after                 *)
(* mCoreSyncWaitFrameEnd, before its test of the queue: the GUI thread     *)
(* runs between the reads of m_queue that these functions make.            *)
(* stopDrawing(), pauseDrawing(), unpauseDrawing() and resizeContext() are *)
(* split at the constructor of CoreController::Interrupter, in which the   *)
(* GUI thread waits for the core while the painter runs.                   *)
(*                                                                         *)
(* m_swapTimer is taken to live on the painter's thread, so the            *)
(* invokeMethod(&m_swapTimer, "start") of the backend swap hook is a       *)
(* direct call when made by the painter.  m_gl->isValid() is taken to be   *)
(* true (the context was created in the DisplayGL constructor).            *)
(*                                                                         *)
(* The producer handshake (mCoreSyncWaitFrameStart / mCoreSyncWaitFrameEnd *)
(* of the core) is kept as one value, sync, that records a start while     *)
(* held and an end while free.  glOwner is the set of threads on which     *)
(* m_gl is current, changed by makeCurrent and doneCurrent only.           *)
(***************************************************************************)
EXTENDS Naturals, Sequences, FiniteSets

VARIABLES
    m_drawThread,   \* DisplayGL::m_drawThread != nullptr
    m_isDrawing,    \* DisplayGL::m_isDrawing
    gpc,            \* position of the GUI thread
    backing,        \* enqueue(): the frame behind `backing`, 0 for nullptr
    buffer,         \* enqueue(): the local `buffer`
    nextFrame,      \* number of the next frame the core produces
    m_queue,        \* PainterGL::m_queue: buffers and nullptr markers
    m_free,         \* PainterGL::m_free
    m_mutex,        \* holder of PainterGL::m_mutex
    content,        \* frame stored in each pool buffer, 0 before any copy
    m_active,       \* PainterGL::m_active
    m_started,      \* PainterGL::m_started
    m_needsUnlock,  \* PainterGL::m_needsUnlock
    m_frameReady,   \* PainterGL::m_frameReady
    m_context,      \* PainterGL::m_context != nullptr
    m_size,         \* PainterGL::m_size
    timerActive,    \* m_swapTimer.isActive()
    timerElapsed,   \* ms since m_swapTimer was (re)started, capped
    wpc,            \* position of the painter thread
    wbuffer,        \* dequeue()/dequeueAll(): the local `buffer`
    drained,        \* dequeueAll(): the frames of the entries popped so far
    events,         \* events posted to the painter, oldest first
    shown,          \* frame the backend holds: the last one posted to it
    posted,         \* frames the running handler gave m_backend->postFrame
    postBuf,        \* buffer inside a running m_backend->postFrame call
    glOwner,        \* threads on which m_gl is current
    sincePresent,   \* ms since the last swapBuffers, capped
    sync,           \* the producer handshake (mCoreSync video frame lock)
    crashed         \* the process died on an invalid memory access

vars == << m_drawThread, m_isDrawing, gpc, backing, buffer, nextFrame,
           m_queue, m_free, m_mutex, content, m_active, m_started,
           m_needsUnlock, m_frameReady, m_context, m_size, timerActive,
           timerElapsed, wpc, wbuffer, drained, events, shown, posted,
           postBuf, glOwner, sincePresent, sync, crashed >>

guiVars == << m_drawThread, m_isDrawing, gpc, backing, buffer, nextFrame >>
poolVars == << m_queue, m_free, m_mutex, content >>
painterVars == << m_active, m_started, m_needsUnlock, m_frameReady,
                  m_context, m_size >>
timerVars == << timerActive, timerElapsed >>
workerVars == << wpc, wbuffer, drained >>
backendVars == << shown, posted, postBuf >>

----------------------------------------------------------------------------
(* Program constants and bounds *)

PoolSize == 2
Interval == 16

BurstFrames == 3
MaxNulls == 1
MaxEvents == 4
MaxRequests == 1
LiveFrames == 1
ResizeFrames == 2
TickMs == 16

NULL == 0
Buffers == 1..PoolSize
Min(a, b) == IF a < b THEN a ELSE b

Count(x, s) == Cardinality({i \in 1..Len(s) : s[i] = x})
InSeq(x, s) == \E i \in 1..Len(s) : s[i] = x

----------------------------------------------------------------------------
(* Pure parts of the queue operations *)

\* enqueue(): the destination buffer, and the containers after taking it
TakeBuffer(free, queue) ==
    IF free = << >>
      THEN [buffer |-> Head(queue), free |-> free, queue |-> Tail(queue)]
      ELSE [buffer |-> free[Len(free)],
            free |-> SubSeq(free, 1, Len(free) - 1), queue |-> queue]

\* enqueue() with backing == nullptr: nothing is taken
TakeNothing(free, queue) == [buffer |-> NULL, free |-> free, queue |-> queue]

\* Mutant of EnqueueTarget: a buffer is taken for a null source too
EnqueueTargetAlways(b, free, queue) == TakeBuffer(free, queue)

\* enqueue(): the `if (backing)` block decides whether a buffer is taken
EnqueueTarget(b, free, queue) ==
    IF b # NULL THEN TakeBuffer(free, queue) ELSE TakeNothing(free, queue)

\* Mutant of ReturnBuffer: the buffer is not given back to the pool
ReturnBufferLeak(free, b) == free

\* dequeue(): the buffer goes back to m_free only if it is not a marker
ReturnBuffer(free, b) == IF b # NULL THEN Append(free, b) ELSE free

\* Mutant of DequeueAllLoop: one entry is popped, not all of them
DequeueAllLoopOnce(queue, free, b) ==
    IF queue = << >>
      THEN [buffer |-> b, free |-> free, queue |-> queue]
      ELSE [buffer |-> Head(queue), free |-> ReturnBuffer(free, Head(queue)),
            queue |-> Tail(queue)]

\* dequeueAll(): the while loop, from a given queue, pool and local buffer
RECURSIVE DequeueAllLoop(_, _, _)
DequeueAllLoop(queue, free, b) ==
    IF queue = << >>
      THEN [buffer |-> b, free |-> free, queue |-> queue]
      ELSE DequeueAllLoop(Tail(queue), ReturnBuffer(free, Head(queue)),
                          Head(queue))

\* `if (buffer) m_backend->postFrame(m_backend, buffer)`: the calls made so
\* far, and the frame the backend holds afterwards
PostFrame(log, b) == IF b # NULL THEN Append(log, content[b]) ELSE log
Shown(old, b) == IF b # NULL THEN content[b] ELSE old

\* Mutant of HookStartsTimer: the hook never starts the timer
HookNeverStartsTimer(active) == FALSE

\* m_backend->swap hook: start the timer unless it is already active
HookStartsTimer(active) == ~active

\* swap(): what one execution does, from the two flags and the queue test
SwapResult(frameReady, queueEmpty) ==
    [present |-> frameReady, scheduleDraw |-> ~queueEmpty, rearm |-> queueEmpty]

\* mCoreSyncWaitFrameStart: takes the handshake; a second call while it is
\* held is recorded
WaitFrameStart(s) ==
    IF s = "free" THEN "held" ELSE IF s = "held" THEN "double_start" ELSE s

\* mCoreSyncWaitFrameEnd: releases the handshake; a call while it is not
\* held is recorded
WaitFrameEnd(s) ==
    IF s = "held" THEN "free" ELSE IF s = "free" THEN "unmatched_end" ELSE s

\* Mutant of SwapReleases: swap() calls mCoreSyncWaitFrameEnd every time
SwapReleasesAlways(needsUnlock) == TRUE

\* swap(): `if (m_needsUnlock)` guards mCoreSyncWaitFrameEnd
SwapReleases(needsUnlock) == needsUnlock

\* m_gl->makeCurrent and m_gl->doneCurrent called on thread t
MakeCurrent(cur, t) == cur \cup {t}
DoneCurrent(cur, t) == cur \ {t}

\* Mutant of ControllerReleases: startDrawing() keeps the context current
ControllerKeeps(cur) == cur

\* startDrawing(): m_gl->doneCurrent() on the GUI thread, before the thread
\* is started
ControllerReleases(cur) == DoneCurrent(cur, "gui")

\* draw() up to the call of mCoreSyncWaitFrameStart: which way it goes, from
\* the first m_queue.isEmpty() read e1 and m_needsUnlock
DrawPath(e1, needsUnlock) ==
    IF e1 THEN "return"
    ELSE IF needsUnlock THEN "defer"
    ELSE "wait"

\* draw() after the wait: which branch it takes, from the value ws of
\* mCoreSyncWaitFrameStart and the second m_queue.isEmpty() read e2
DrawBranch(ws, e2) == IF ws \/ ~e2 THEN "render" ELSE "release"

\* m_queue.isEmpty() read without m_mutex by draw() and swap(): while the
\* GUI thread is inside enqueue()'s critical section the read races with the
\* update and may yield either value
IsEmptyReads ==
    IF m_mutex = "gui" THEN BOOLEAN ELSE {m_queue = << >>}

----------------------------------------------------------------------------
Init ==
    /\ m_drawThread = FALSE
    /\ m_isDrawing = FALSE
    /\ gpc = "idle"
    /\ backing = NULL
    /\ buffer = NULL
    /\ nextFrame = 1
    /\ m_queue = << >>
    /\ m_free = [i \in 1..PoolSize |-> i]
    /\ m_mutex = "none"
    /\ content = [b \in Buffers |-> 0]
    /\ m_active = FALSE
    /\ m_started = FALSE
    /\ m_needsUnlock = FALSE
    /\ m_frameReady = FALSE
    /\ m_context = FALSE
    /\ m_size = 0
    /\ timerActive = FALSE
    /\ timerElapsed = 0
    /\ wpc = "idle"
    /\ wbuffer = NULL
    /\ drained = << >>
    /\ events = << >>
    /\ shown = 0
    /\ posted = << >>
    /\ postBuf = NULL
    /\ glOwner = {}
    /\ sincePresent = Interval
    /\ sync = "free"
    /\ crashed = FALSE

----------------------------------------------------------------------------
(* The GUI thread: DisplayGL *)

Ev(op, arg) == [op |-> op, arg |-> arg]

\* Mutant of NeedsForceDraw: the redraw is forced whenever started
NeedsForceDrawStarted(started, active) == started

\* resize() and filter(): `if (m_started && !m_active)`
NeedsForceDraw(started, active) == started /\ ~active

\* forceDraw(): performDraw() sets m_frameReady, then the backend swap hook
\* starts m_swapTimer unless it is active
ForceDraw ==
    /\ m_frameReady' = TRUE
    /\ timerActive' = (timerActive \/ HookStartsTimer(timerActive))
    /\ timerElapsed' = IF HookStartsTimer(timerActive) THEN 0 ELSE timerElapsed

\* resize(), filter(): the forced redraw of an idle pipeline
RedrawIfIdle ==
    IF NeedsForceDraw(m_started, m_active)
      THEN ForceDraw
      ELSE UNCHANGED << m_frameReady, timerVars >>

\* startDrawing(): does nothing if a draw thread exists; otherwise binds the
\* controller, sizes the painter, releases the context, starts the thread
\* (whose started signal runs PainterGL::start first), posts the three
\* settings and ends in the blocking resizePainter()
StartDrawing(s) ==
    /\ ~crashed /\ gpc = "idle"
    /\ ~m_drawThread
    /\ m_isDrawing' = TRUE
    /\ m_context' = TRUE
    /\ m_size' = s
    /\ RedrawIfIdle
    /\ m_drawThread' = TRUE
    /\ glOwner' = ControllerReleases(glOwner)
    /\ wpc' = "start"
    /\ events' = events \o << Ev("lockAspectRatio", 0),
                              Ev("lockIntegerScaling", 0),
                              Ev("filter", 0), Ev("resize", s) >>
    /\ gpc' = "wait_resize"
    /\ UNCHANGED << backing, buffer, nextFrame, poolVars, m_active,
                    m_started, m_needsUnlock, wbuffer, drained,
                    backendVars, sincePresent, sync, crashed >>

\* A DisplayGL call that has written m_isDrawing enters the constructor of
\* CoreController::Interrupter, which waits until the core is interrupted;
\* the painter thread runs meanwhile
EnterInterrupter(isDrawing, at) ==
    /\ m_isDrawing' = isDrawing
    /\ gpc' = at
    /\ UNCHANGED events

\* The Interrupter is constructed: the blocking invoke of op is made
InterruptedInvoke(at, op, wait) ==
    /\ ~crashed /\ gpc = at
    /\ events' = Append(events, Ev(op, 0))
    /\ gpc' = wait
    /\ UNCHANGED << m_drawThread, m_isDrawing, backing, buffer, nextFrame,
                    poolVars, painterVars, timerVars, workerVars,
                    backendVars, glOwner, sincePresent, sync, crashed >>

\* Mutant of StopRequest: stop is invoked whether or not a thread exists
StopRequestAlways(thread) == TRUE

\* stopDrawing(): `if (m_drawThread)` guards the blocking invoke of
\* PainterGL::stop; without a thread only m_context.reset() remains
StopRequest(thread) == thread

\* stopDrawing() up to the Interrupter, or up to m_context.reset()
StopDrawing ==
    /\ ~crashed /\ gpc = "idle"
    /\ IF StopRequest(m_drawThread)
         THEN EnterInterrupter(FALSE, "interrupt_stop")
         ELSE /\ gpc' = "stop_reset"
              /\ UNCHANGED << m_isDrawing, events >>
    /\ UNCHANGED << m_drawThread, backing, buffer, nextFrame, poolVars,
                    painterVars, timerVars, workerVars, backendVars, glOwner,
                    sincePresent, sync, crashed >>

\* stopDrawing(): the blocking invoke of PainterGL::stop
StopInvoke == InterruptedInvoke("interrupt_stop", "stop", "wait_stop")

\* stopDrawing() after the blocking call: the thread exits, the context is
\* made current on the GUI thread, DisplayGL::m_context is reset
StopReturn ==
    /\ ~crashed /\ gpc = "ret_stop"
    /\ m_drawThread' = FALSE
    /\ glOwner' = MakeCurrent(glOwner, "gui")
    /\ gpc' = "idle"
    /\ UNCHANGED << m_isDrawing, backing, buffer, nextFrame, poolVars,
                    painterVars, timerVars, workerVars, events, backendVars,
                    sincePresent, sync, crashed >>

\* stopDrawing() without a draw thread: DisplayGL::m_context.reset()
StopReset ==
    /\ ~crashed /\ gpc = "stop_reset"
    /\ gpc' = "idle"
    /\ UNCHANGED << m_drawThread, m_isDrawing, backing, buffer, nextFrame,
                    poolVars, painterVars, timerVars, workerVars, events,
                    backendVars, glOwner, sincePresent, sync, crashed >>

\* pauseDrawing() and unpauseDrawing(): m_isDrawing is written, the
\* Interrupter constructed, then the blocking invoke made
PauseDrawing ==
    /\ ~crashed /\ gpc = "idle"
    /\ m_drawThread
    /\ EnterInterrupter(FALSE, "interrupt_pause")
    /\ UNCHANGED << m_drawThread, backing, buffer, nextFrame, poolVars,
                    painterVars, timerVars, workerVars, backendVars, glOwner,
                    sincePresent, sync, crashed >>

PauseInvoke == InterruptedInvoke("interrupt_pause", "pause", "wait_pause")

UnpauseDrawing ==
    /\ ~crashed /\ gpc = "idle"
    /\ m_drawThread
    /\ EnterInterrupter(TRUE, "interrupt_unpause")
    /\ UNCHANGED << m_drawThread, backing, buffer, nextFrame, poolVars,
                    painterVars, timerVars, workerVars, backendVars, glOwner,
                    sincePresent, sync, crashed >>

UnpauseInvoke ==
    InterruptedInvoke("interrupt_unpause", "unpause", "wait_unpause")

\* resizeEvent() -> resizePainter(): blocking invoke of PainterGL::resize
ResizePainter(s) ==
    /\ ~crashed /\ gpc = "idle"
    /\ m_drawThread
    /\ events' = Append(events, Ev("resize", s))
    /\ gpc' = "wait_resize"
    /\ UNCHANGED << m_drawThread, m_isDrawing, backing, buffer, nextFrame,
                    poolVars, painterVars, timerVars, workerVars,
                    backendVars, glOwner, sincePresent, sync, crashed >>

\* the requests DisplayGL posts to the painter without waiting for them
RequestOps == {"forceDraw", "lockAspectRatio", "lockIntegerScaling",
               "filter", "clearShaders"}
Requests(evs) == Cardinality({i \in 1..Len(evs) : evs[i].op \in RequestOps})

\* QMetaObject::invokeMethod(m_painter, op) with a queued connection
PostRequest(op) ==
    /\ ~crashed /\ gpc = "idle"
    /\ Len(events) < MaxEvents
    /\ Requests(events) < MaxRequests
    /\ events' = Append(events, Ev(op, 0))
    /\ UNCHANGED << guiVars, poolVars, painterVars, timerVars, workerVars,
                    backendVars, glOwner, sincePresent, sync, crashed >>

\* DisplayGL::forceDraw(), lockAspectRatio(), lockIntegerScaling() and
\* filter(): posted `if (m_drawThread)`
DisplayForceDraw == m_drawThread /\ PostRequest("forceDraw")
LockAspectRatio == m_drawThread /\ PostRequest("lockAspectRatio")
LockIntegerScaling == m_drawThread /\ PostRequest("lockIntegerScaling")
Filter == m_drawThread /\ PostRequest("filter")

\* DisplayGL::clearShaders(): invokeMethod with the default connection.
\* With a draw thread the painter lives there and the call is posted;
\* without one the painter lives on the GUI thread and
\* PainterGL::clearShaders() runs inside the call, touching the shader
\* passes only
ClearShaders ==
    IF m_drawThread
      THEN PostRequest("clearShaders")
      ELSE /\ ~crashed /\ gpc = "idle"
           /\ UNCHANGED vars

\* QMetaObject::invokeMethod(m_painter, op, Qt::BlockingQueuedConnection),
\* made `if (m_drawThread)`
BlockingInvoke(op, wait) ==
    /\ ~crashed /\ gpc = "idle"
    /\ m_drawThread
    /\ events' = Append(events, Ev(op, 0))
    /\ gpc' = wait
    /\ UNCHANGED << m_drawThread, backing, buffer, nextFrame, poolVars,
                    painterVars, timerVars, workerVars, backendVars, glOwner,
                    sincePresent, sync, crashed >>

\* resizeContext(): clears m_isDrawing and constructs the Interrupter,
\* then makes the blocking invoke
ResizeContext ==
    /\ ~crashed /\ gpc = "idle"
    /\ m_drawThread
    /\ EnterInterrupter(FALSE, "interrupt_resizeContext")
    /\ UNCHANGED << m_drawThread, backing, buffer, nextFrame, poolVars,
                    painterVars, timerVars, workerVars, backendVars, glOwner,
                    sincePresent, sync, crashed >>

ResizeContextInvoke ==
    InterruptedInvoke("interrupt_resizeContext", "resizeContext",
                      "wait_resizeContext")

SetShaders ==
    /\ BlockingInvoke("setShaders", "wait_setShaders")
    /\ UNCHANGED m_isDrawing

GetShaders ==
    /\ BlockingInvoke("shaders", "wait_shaders")
    /\ UNCHANGED m_isDrawing

\* memcpy(buffer, backing, ...): the frame stored in each buffer afterwards
Memcpy(c, dst, src) == [c EXCEPT ![dst] = src]

\* framePosted() with a draw thread, up to enqueue()'s memcpy: lock, choice
\* of the destination buffer, copy.  b is 0 when drawContext() is nullptr.
\* m_queue.dequeue() on an empty queue and memcpy to nullptr are invalid
\* accesses: the process dies, or (memcpy) the write is lost
FramePosted(b) ==
    /\ ~crashed /\ gpc = "idle"
    /\ m_drawThread
    /\ Len(events) < MaxEvents
    /\ b = NULL => Count(NULL, m_queue) < MaxNulls
    /\ b # NULL => b = nextFrame /\ nextFrame <= BurstFrames
    /\ m_mutex = "none"
    /\ m_mutex' = "gui"
    /\ backing' = b
    /\ nextFrame' = IF b # NULL THEN nextFrame + 1 ELSE nextFrame
    /\ IF b # NULL /\ m_free = << >> /\ m_queue = << >>
         THEN /\ crashed' = TRUE
              /\ UNCHANGED << buffer, m_free, m_queue, content, gpc >>
         ELSE LET t == EnqueueTarget(b, m_free, m_queue) IN
              /\ buffer' = t.buffer
              /\ m_free' = t.free
              /\ m_queue' = t.queue
              /\ IF b = NULL
                   THEN /\ gpc' = "enq_append"
                        /\ UNCHANGED << content, crashed >>
                   ELSE IF t.buffer = NULL
                     THEN /\ \/ crashed' = TRUE /\ UNCHANGED gpc
                             \/ crashed' = FALSE /\ gpc' = "enq_append"
                          /\ UNCHANGED content
                     ELSE /\ content' = Memcpy(content, t.buffer, b)
                          /\ gpc' = "enq_append"
                          /\ UNCHANGED crashed
    /\ UNCHANGED << m_drawThread, m_isDrawing, painterVars, timerVars,
                    workerVars, events, backendVars, glOwner, sincePresent,
                    sync >>

\* enqueue(): m_queue.enqueue(buffer), m_mutex.unlock()
EnqueueAppend ==
    /\ ~crashed /\ gpc = "enq_append"
    /\ m_queue' = Append(m_queue, buffer)
    /\ m_mutex' = "none"
    /\ buffer' = NULL
    /\ backing' = NULL
    /\ gpc' = "post_draw"
    /\ UNCHANGED << m_drawThread, m_isDrawing, nextFrame, m_free, content,
                    painterVars, timerVars, workerVars, events, backendVars,
                    glOwner, sincePresent, sync, crashed >>

\* framePosted() after enqueue() has returned: draw is posted to the painter
PostDraw ==
    /\ ~crashed /\ gpc = "post_draw"
    /\ events' = Append(events, Ev("draw", 0))
    /\ gpc' = "idle"
    /\ UNCHANGED << m_drawThread, m_isDrawing, backing, buffer, nextFrame,
                    poolVars, painterVars, timerVars, workerVars,
                    backendVars, glOwner, sincePresent, sync, crashed >>

\* A draw still posted to the painter when its thread has exited is
\* delivered on the GUI thread, to which stop() moved the painter, and the
\* whole of draw() runs there: it returns on an empty queue, posts itself
\* again while m_needsUnlock is set, and otherwise goes on to use
\* PainterGL::m_context: reset by stop(), its use is an invalid access;
\* were it set, draw() would dequeue an entry and compose
StaleDraw ==
    /\ ~crashed /\ gpc = "idle"
    /\ ~m_drawThread
    /\ events # << >>
    /\ Head(events).op = "draw"
    /\ LET path == DrawPath(m_queue = << >>, m_needsUnlock) IN
         IF path # "wait"
           THEN /\ events' = IF path = "defer"
                               THEN Append(Tail(events), Head(events))
                               ELSE Tail(events)
                /\ UNCHANGED << poolVars, painterVars, timerVars,
                                backendVars, sync, crashed >>
           ELSE IF ~m_context
             THEN /\ events' = Tail(events)
                  /\ crashed' = TRUE
                  /\ UNCHANGED << poolVars, painterVars, timerVars,
                                  backendVars, sync >>
             ELSE /\ events' = Tail(events)
                  /\ m_mutex = "none"
                  /\ m_queue' = Tail(m_queue)
                  /\ m_free' = ReturnBuffer(m_free, Head(m_queue))
                  /\ posted' = PostFrame(posted, Head(m_queue))
                  /\ shown' = Shown(shown, Head(m_queue))
                  /\ ForceDraw
                  /\ \E videoFrameWait \in BOOLEAN :
                       /\ m_needsUnlock' = videoFrameWait
                       /\ sync' = IF videoFrameWait
                                    THEN WaitFrameStart(sync)
                                    ELSE WaitFrameEnd(WaitFrameStart(sync))
                  /\ UNCHANGED << m_mutex, content, m_active, m_started,
                                  m_context, m_size, postBuf, crashed >>
    /\ UNCHANGED << guiVars, workerVars, glOwner, sincePresent >>

----------------------------------------------------------------------------
(* The painter thread: PainterGL *)

\* The painter lives on the draw thread: from startDrawing()'s moveToThread
\* to the moveToThread at the end of stop(), which precedes the reset of
\* m_drawThread in stopDrawing()
OnDrawThread == m_drawThread /\ gpc # "ret_stop"

\* The painter's event loop is ready to deliver the oldest posted event
Deliver(op) ==
    /\ ~crashed /\ wpc = "idle"
    /\ OnDrawThread
    /\ events # << >>
    /\ Head(events).op = op

\* A blocking invoke returns to the GUI thread when the handler is done
Return(from, to) == gpc' = IF gpc = from THEN to ELSE gpc

\* start(), run by QThread::started before any event
PainterStart ==
    /\ ~crashed /\ wpc = "start"
    /\ glOwner' = MakeCurrent(glOwner, "worker")
    /\ m_active' = TRUE
    /\ m_started' = TRUE
    /\ wpc' = "idle"
    /\ UNCHANGED << guiVars, poolVars, m_needsUnlock, m_frameReady,
                    m_context, m_size, timerVars, wbuffer, drained, events,
                    backendVars, sincePresent, sync, crashed >>

PainterPause ==
    /\ Deliver("pause")
    /\ events' = Tail(events)
    /\ m_active' = FALSE
    /\ Return("wait_pause", "idle")
    /\ UNCHANGED << m_drawThread, m_isDrawing, backing, buffer, nextFrame,
                    poolVars, m_started, m_needsUnlock, m_frameReady,
                    m_context, m_size, timerVars, workerVars, backendVars,
                    glOwner, sincePresent, sync, crashed >>

PainterUnpause ==
    /\ Deliver("unpause")
    /\ events' = Tail(events)
    /\ m_active' = TRUE
    /\ Return("wait_unpause", "idle")
    /\ UNCHANGED << m_drawThread, m_isDrawing, backing, buffer, nextFrame,
                    poolVars, m_started, m_needsUnlock, m_frameReady,
                    m_context, m_size, timerVars, workerVars, backendVars,
                    glOwner, sincePresent, sync, crashed >>

PainterResize ==
    /\ Deliver("resize")
    /\ events' = Tail(events)
    /\ m_size' = Head(events).arg
    /\ RedrawIfIdle
    /\ Return("wait_resize", "idle")
    /\ UNCHANGED << m_drawThread, m_isDrawing, backing, buffer, nextFrame,
                    poolVars, m_active, m_started, m_needsUnlock, m_context,
                    workerVars, backendVars, glOwner,
                    sincePresent, sync, crashed >>

\* lockAspectRatio(), lockIntegerScaling(): set the backend flag, then
\* resize(m_size); filter(): set the backend flag, then the same test
PainterSetting(op) ==
    /\ Deliver(op)
    /\ events' = Tail(events)
    /\ RedrawIfIdle
    /\ UNCHANGED << guiVars, poolVars, m_active, m_started, m_needsUnlock,
                    m_context, m_size, workerVars, backendVars,
                    glOwner, sincePresent, sync, crashed >>

PainterLockAspectRatio == PainterSetting("lockAspectRatio")
PainterLockIntegerScaling == PainterSetting("lockIntegerScaling")
PainterFilter == PainterSetting("filter")

\* forceDraw(), invoked by DisplayGL::forceDraw()
PainterForceDraw ==
    /\ Deliver("forceDraw")
    /\ events' = Tail(events)
    /\ ForceDraw
    /\ UNCHANGED << guiVars, poolVars, m_active, m_started, m_needsUnlock,
                    m_context, m_size, workerVars, backendVars,
                    glOwner, sincePresent, sync, crashed >>

\* resizeContext(), setShaders(), shaders(), clearShaders(): they set the
\* backend's dimensions or touch the shader passes, and (but for
\* clearShaders) return to the blocked caller
PainterSlot(op, wait) ==
    /\ Deliver(op)
    /\ events' = Tail(events)
    /\ Return(wait, "idle")
    /\ UNCHANGED << m_drawThread, m_isDrawing, backing, buffer, nextFrame,
                    poolVars, painterVars, timerVars, workerVars,
                    backendVars, glOwner, sincePresent, sync, crashed >>

PainterResizeContext == PainterSlot("resizeContext", "wait_resizeContext")
PainterSetShaders == PainterSlot("setShaders", "wait_setShaders")
PainterShaders == PainterSlot("shaders", "wait_shaders")
PainterClearShaders == PainterSlot("clearShaders", "no_wait")

\* draw() up to mCoreSyncWaitFrameStart, in which the painter waits for
\* the core while the GUI thread runs
DrawBegin ==
    /\ Deliver("draw")
    /\ \E e1 \in IsEmptyReads :
         LET path == DrawPath(e1, m_needsUnlock) IN
         /\ events' = IF path = "defer"
                        THEN Append(Tail(events), Head(events))
                        ELSE Tail(events)
         /\ wpc' = IF path = "wait" THEN "frame_start" ELSE "idle"
    /\ UNCHANGED << guiVars, poolVars, painterVars, timerVars, wbuffer,
                    drained, backendVars, glOwner, sincePresent, sync,
                    crashed >>

\* draw(): mCoreSyncWaitFrameStart returns and, if it returned false,
\* m_queue.isEmpty() is read again; up to the call of dequeue(), or up to
\* the mCoreSyncWaitFrameEnd of the branch that does not render
DrawFrameStart ==
    /\ ~crashed /\ wpc = "frame_start"
    /\ sync' = WaitFrameStart(sync)
    /\ \E ws \in BOOLEAN, e2 \in IsEmptyReads :
         wpc' = IF DrawBranch(ws, e2) = "render" THEN "dequeue" ELSE "release"
    /\ UNCHANGED << guiVars, poolVars, painterVars, timerVars, wbuffer,
                    drained, events, backendVars, glOwner, sincePresent,
                    crashed >>

\* dequeue() up to the postFrame call: lock, the empty test (unlock and
\* return), m_queue.dequeue(), m_backend->postFrame for a real buffer
DequeuePost ==
    /\ ~crashed /\ wpc = "dequeue"
    /\ m_mutex = "none"
    /\ IF m_queue = << >>
         THEN /\ wpc' = "force_draw"
              /\ UNCHANGED << m_queue, m_mutex, wbuffer, backendVars >>
         ELSE /\ wbuffer' = Head(m_queue)
              /\ m_queue' = Tail(m_queue)
              /\ m_mutex' = "worker"
              /\ posted' = PostFrame(posted, Head(m_queue))
              /\ shown' = Shown(shown, Head(m_queue))
              /\ postBuf' = Head(m_queue)
              /\ wpc' = "dequeue_post"
    /\ UNCHANGED << guiVars, m_free, content, painterVars, timerVars,
                    drained, events, glOwner, sincePresent, sync, crashed >>

\* dequeue() after postFrame: m_free.append for a real buffer, unlock
DequeueReturn ==
    /\ ~crashed /\ wpc = "dequeue_post"
    /\ m_free' = ReturnBuffer(m_free, wbuffer)
    /\ m_mutex' = "none"
    /\ postBuf' = NULL
    /\ wbuffer' = NULL
    /\ wpc' = "force_draw"
    /\ UNCHANGED << guiVars, m_queue, content, painterVars, timerVars,
                    drained, events, shown, posted, glOwner, sincePresent,
                    sync, crashed >>

\* the rest of draw() after dequeue(): forceDraw(), and either the handshake
\* is kept (videoFrameWait set) or released with mCoreSyncWaitFrameEnd
DrawRender ==
    /\ ~crashed /\ wpc = "force_draw"
    /\ posted' = << >>
    /\ ForceDraw
    /\ \E videoFrameWait \in BOOLEAN :
         /\ m_needsUnlock' = videoFrameWait
         /\ sync' = IF videoFrameWait THEN sync ELSE WaitFrameEnd(sync)
    /\ wpc' = "idle"
    /\ UNCHANGED << guiVars, poolVars, m_active, m_started, m_context,
                    m_size, wbuffer, drained, events, shown, postBuf,
                    glOwner, sincePresent, crashed >>

\* draw(), the else branch: mCoreSyncWaitFrameEnd without rendering
DrawRelease ==
    /\ ~crashed /\ wpc = "release"
    /\ sync' = WaitFrameEnd(sync)
    /\ wpc' = "idle"
    /\ UNCHANGED << guiVars, poolVars, painterVars, timerVars, wbuffer,
                    drained, events, backendVars, glOwner, sincePresent,
                    crashed >>

\* stop() up to dequeueAll()'s postFrame call
StopBegin ==
    /\ Deliver("stop")
    /\ m_mutex = "none"
    /\ events' = Tail(events)
    /\ m_active' = FALSE
    /\ m_started' = FALSE
    /\ LET r == DequeueAllLoop(m_queue, m_free, NULL) IN
         /\ m_queue' = r.queue
         /\ m_free' = r.free
         /\ wbuffer' = r.buffer
         /\ posted' = PostFrame(posted, r.buffer)
         /\ shown' = Shown(shown, r.buffer)
         /\ postBuf' = r.buffer
    /\ drained' = [i \in 1..Len(m_queue) |->
                     IF m_queue[i] = NULL THEN 0 ELSE content[m_queue[i]]]
    /\ m_mutex' = "worker"
    /\ wpc' = "stop_finish"
    /\ UNCHANGED << guiVars, content, m_needsUnlock, m_frameReady, m_context,
                    m_size, timerVars, glOwner, sincePresent, sync, crashed >>

\* stop() after dequeueAll()'s postFrame: unlock, clear, the swap hook
\* (which leaves the timer active), swap(), m_swapTimer.stop(), release of
\* the context and of the controller, and the return of the blocking call
StopFinish ==
    /\ ~crashed /\ wpc = "stop_finish"
    /\ m_mutex' = "none"
    /\ postBuf' = NULL
    /\ wbuffer' = NULL
    /\ drained' = << >>
    /\ posted' = << >>
    /\ LET r == SwapResult(m_frameReady, m_queue = << >>) IN
         /\ sincePresent' = IF r.present THEN 0 ELSE sincePresent
         /\ events' = IF r.scheduleDraw
                        THEN Append(events, Ev("draw", 0)) ELSE events
    /\ m_frameReady' = FALSE
    /\ m_needsUnlock' = FALSE
    /\ sync' = IF SwapReleases(m_needsUnlock) THEN WaitFrameEnd(sync) ELSE sync
    /\ timerActive' = FALSE
    /\ timerElapsed' = 0
    /\ glOwner' = DoneCurrent(IF m_frameReady
                                 THEN MakeCurrent(glOwner, "worker")
                                 ELSE glOwner, "worker")
    /\ m_context' = FALSE
    /\ Return("wait_stop", "ret_stop")
    /\ wpc' = "idle"
    /\ UNCHANGED << m_drawThread, m_isDrawing, backing, buffer, nextFrame,
                    m_queue, m_free, content, m_active, m_started, m_size,
                    shown, crashed >>

\* Mutant of TimerExpired: timeout is delivered as soon as the timer runs
TimerExpiredAtOnce(active, elapsed) == active

\* the single-shot m_swapTimer has run its interval
TimerExpired(active, elapsed) == active /\ elapsed >= Interval

\* timeout of the single-shot m_swapTimer: swap() up to the return of
\* mCoreSyncWaitFrameEnd: swapBuffers and makeCurrent for a composed frame,
\* release of a held handshake
TimerSwap ==
    /\ ~crashed /\ wpc = "idle"
    /\ OnDrawThread
    /\ TimerExpired(timerActive, timerElapsed)
    /\ LET r == SwapResult(m_frameReady, TRUE) IN
         /\ sincePresent' = IF r.present THEN 0 ELSE sincePresent
         /\ glOwner' = IF r.present THEN MakeCurrent(glOwner, "worker")
                       ELSE glOwner
    /\ timerActive' = FALSE
    /\ timerElapsed' = 0
    /\ m_frameReady' = FALSE
    /\ sync' = IF SwapReleases(m_needsUnlock) THEN WaitFrameEnd(sync) ELSE sync
    /\ wpc' = "swap_queue"
    /\ UNCHANGED << guiVars, poolVars, m_active, m_started, m_needsUnlock,
                    m_context, m_size, wbuffer, drained, events, backendVars,
                    crashed >>

\* swap() after mCoreSyncWaitFrameEnd: m_needsUnlock is cleared, then the
\* unlocked m_queue.isEmpty() decides between posting a draw and
\* restarting the timer
SwapQueueTest ==
    /\ ~crashed /\ wpc = "swap_queue"
    /\ m_needsUnlock' = FALSE
    /\ \E e \in IsEmptyReads :
         LET r == SwapResult(m_frameReady, e) IN
         /\ events' = IF r.scheduleDraw
                        THEN Append(events, Ev("draw", 0)) ELSE events
         /\ timerActive' = r.rearm
    /\ timerElapsed' = 0
    /\ wpc' = "idle"
    /\ UNCHANGED << guiVars, poolVars, m_active, m_started, m_frameReady,
                    m_context, m_size, wbuffer, drained, backendVars,
                    glOwner, sincePresent, sync, crashed >>

\* Time passes
Tick ==
    /\ ~crashed
    /\ timerActive \/ sincePresent < Interval
    /\ timerElapsed' = IF timerActive
                         THEN Min(timerElapsed + TickMs, Interval)
                         ELSE timerElapsed
    /\ sincePresent' = Min(sincePresent + TickMs, Interval)
    /\ UNCHANGED << guiVars, poolVars, painterVars, timerActive, workerVars,
                    events, backendVars, glOwner, sync, crashed >>

----------------------------------------------------------------------------
\* the widget sizes given to startDrawing() and resizeEvent()
Sizes == {1}
\* drawContext(): nullptr, or the next frame of a run of frames
Backings == 0..BurstFrames

Next ==
    \/ \E s \in Sizes : StartDrawing(s)
    \/ StopDrawing
    \/ StopInvoke
    \/ StopReturn
    \/ StopReset
    \/ PauseDrawing
    \/ PauseInvoke
    \/ UnpauseDrawing
    \/ UnpauseInvoke
    \/ \E s \in Sizes : ResizePainter(s)
    \/ \E b \in Backings : FramePosted(b)
    \/ EnqueueAppend
    \/ PostDraw
    \/ StaleDraw
    \/ DisplayForceDraw
    \/ LockAspectRatio
    \/ LockIntegerScaling
    \/ Filter
    \/ ClearShaders
    \/ ResizeContext
    \/ ResizeContextInvoke
    \/ SetShaders
    \/ GetShaders
    \/ PainterForceDraw
    \/ PainterResizeContext
    \/ PainterSetShaders
    \/ PainterShaders
    \/ PainterClearShaders
    \/ PainterStart
    \/ PainterPause
    \/ PainterUnpause
    \/ PainterResize
    \/ PainterLockAspectRatio
    \/ PainterLockIntegerScaling
    \/ PainterFilter
    \/ DrawBegin
    \/ DrawFrameStart
    \/ DequeuePost
    \/ DequeueReturn
    \/ DrawRender
    \/ DrawRelease
    \/ StopBegin
    \/ StopFinish
    \/ TimerSwap
    \/ SwapQueueTest
    \/ Tick

Spec == Init /\ [][Next]_vars

----------------------------------------------------------------------------
(* Properties *)

Paused == m_started /\ ~m_active
HasFrame(s) == \E i \in 1..Len(s) : s[i] # 0
\* the last frame of a sequence of frames and markers (0) holding a frame
LastFrame(s) ==
    s[CHOOSE i \in 1..Len(s) : s[i] # 0 /\ \A j \in (i + 1)..Len(s) : s[j] = 0]

\* C1: whenever m_mutex is not held, each of the two buffers allocated by the
\* constructor is in exactly one of m_free and m_queue, once; m_free holds
\* nothing but those buffers and m_queue nothing but them and markers
BufferConservation ==
    m_mutex = "none" =>
        /\ \A b \in Buffers : Count(b, m_free) + Count(b, m_queue) = 1
        /\ \A i \in 1..Len(m_free) : m_free[i] \in Buffers
        /\ \A i \in 1..Len(m_queue) : m_queue[i] \in Buffers \cup {NULL}

\* C1 witness: enqueue (of frames and of a marker) and dequeue have run: the
\* backend has been given a frame, both buffers and a marker are queued
ConservationCase ==
    /\ m_mutex = "none"
    /\ shown # 0
    /\ m_free = << >>
    /\ Count(NULL, m_queue) >= 1

\* C2: enqueue() with a non-null source copies into a pool buffer, never
\* into a null marker, and never pops an empty queue
EnqueueCopiesIntoPoolBuffer == backing # NULL => buffer \in Buffers

\* C3: when dequeueAll() has reached its postFrame, the queue is empty and,
\* if it held a frame, exactly one postFrame call was made, with the most
\* recently enqueued frame
DrainAllPostsLastFrame ==
    wpc = "stop_finish" =>
        /\ m_queue = << >>
        /\ HasFrame(drained) => posted = << LastFrame(drained) >>

\* C4: a buffer inside a postFrame call is neither in m_free nor in m_queue
NoDoubleOwnership ==
    postBuf # NULL => ~InSeq(postBuf, m_free) /\ ~InSeq(postBuf, m_queue)

\* C5: while the painter is paused (pause() has completed, no unpause() or
\* stop() since), frames posted by the producer never make it enter
\* dequeue(), call postFrame or compose
PauseFreezesComposition ==
    Paused => wpc \notin {"dequeue", "dequeue_post", "force_draw"}

FreeHoldsPool ==
    Len(m_free) = PoolSize /\ \A b \in Buffers : Count(b, m_free) = 1

\* stop() leaves m_queue empty and both buffers in m_free, whatever was
\* pending
StopLeavesPoolWhole ==
    /\ wpc = "stop_finish" => m_queue = << >> /\ FreeHoldsPool
    /\ gpc = "ret_stop" =>
          m_queue = << >> /\ FreeHoldsPool /\ m_mutex = "none"

\* C6: stop() with N >= 1 frames pending makes exactly one postFrame call,
\* with the most recently enqueued of them, and whatever is pending it
\* leaves m_queue empty and both buffers in m_free (for N = 0, where there
\* is no frame to post, only the latter is required here)
StopPresentsOnce ==
    /\ StopLeavesPoolWhole
    /\ (wpc = "stop_finish" /\ HasFrame(drained)) =>
          posted = << LastFrame(drained) >>

\* C7: enqueue() with a null source takes no buffer, copies nothing and
\* only appends one marker; dequeue() of a marker makes no postFrame call
\* and leaves m_free as it is
NullFrameNoOp ==
    [][ /\ (gpc = "idle" /\ gpc' = "enq_append" /\ backing' = NULL) =>
              /\ m_free' = m_free
              /\ content' = content
              /\ m_queue' = m_queue
              /\ buffer' = NULL
        /\ (gpc = "enq_append" /\ backing = NULL /\ gpc' = "post_draw") =>
              /\ m_free' = m_free
              /\ content' = content
              /\ m_queue' = Append(m_queue, NULL)
        /\ (wpc = "dequeue" /\ wpc' = "dequeue_post" /\ m_queue # << >>
              /\ Head(m_queue) = NULL) =>
              /\ m_queue' = Tail(m_queue)
              /\ posted' = posted
              /\ shown' = shown
              /\ postBuf' = NULL
              /\ m_free' = m_free
        /\ (wpc = "dequeue_post" /\ wbuffer = NULL /\ wpc' = "force_draw") =>
              /\ m_free' = m_free
              /\ posted = << >>
      ]_vars

\* C7 witness: dequeue() has popped a marker and holds the mutex
MarkerDequeuedCase ==
    /\ wpc = "dequeue_post"
    /\ m_mutex = "worker"
    /\ wbuffer = NULL
    /\ m_free # << >>

\* a swap() that presents: swapBuffers is called when m_frameReady is set
TimerPresent == TimerSwap /\ m_frameReady
StopPresent == StopFinish /\ m_frameReady

\* C8 as claimed: every swapBuffers comes a full timer interval or more
\* after the one before
PresentsPaced ==
    [][TimerPresent \/ StopPresent => sincePresent >= Interval]_vars

\* C8 as amended: every swapBuffers made by the timer-driven swap() comes a
\* full timer interval or more after the swapBuffers before it; the swap()
\* that stop() calls directly is not paced
TimerPresentsPaced ==
    [][TimerPresent => sincePresent >= Interval]_vars

\* C8 witness: a frame was presented less than an interval ago and the next
\* one is composed and waits for the timer
NextFrameWaitsCase ==
    /\ sincePresent < Interval
    /\ m_frameReady
    /\ timerActive
    /\ m_queue # << >>
    /\ wpc = "idle"

\* C9: dequeue() hands frames to the backend in the order of their enqueue,
\* none twice; and when enqueue() finds m_free empty, what it takes from the
\* queue is the oldest frame not yet handed to the backend
FifoDropOldest ==
    [][ /\ (wpc = "dequeue" /\ wpc' = "dequeue_post" /\ postBuf' # NULL) =>
              shown' > shown
        /\ (gpc = "idle" /\ m_mutex' = "gui" /\ backing' # NULL
              /\ m_free = << >>) =>
              /\ m_queue # << >>
              /\ Head(m_queue) # NULL
              /\ \A i \in 1..Len(m_queue) :
                    m_queue[i] # NULL =>
                        content[Head(m_queue)] <= content[m_queue[i]]
      ]_vars

\* C10: a stop request made when no draw thread exists (the first stop has
\* completed and nothing was started since) interrupts nothing, posts
\* nothing to the painter and changes neither the painter, the queue, the
\* pool, the timer, the backend nor the owner of the context
SecondStopNoOp ==
    [][ (~m_drawThread /\ (StopDrawing \/ StopInvoke \/ StopReset)) =>
            /\ UNCHANGED << m_drawThread, poolVars, painterVars, timerVars,
                            workerVars, events, backendVars, glOwner,
                            sincePresent >>
            /\ gpc' \in {"stop_reset", "idle"}
      ]_vars

\* C10 witness: a stop request is being served after a completed stop()
SecondStopCase ==
    /\ gpc = "stop_reset"
    /\ glOwner = {"gui"}
    /\ ~m_started
    /\ shown # 0

\* C11: on the worker mCoreSyncWaitFrameStart and mCoreSyncWaitFrameEnd
\* alternate, starting with mCoreSyncWaitFrameStart: no start while the
\* handshake is held, no end while it is not; it is held from the return
\* of the start in draw() to draw()'s own end call, and otherwise exactly
\* while m_needsUnlock is set and swap() has not yet made the end call
HandshakeAlternates ==
    /\ sync \in {"free", "held"}
    /\ sync = "held" <=>
          \/ m_needsUnlock /\ wpc # "swap_queue"
          \/ wpc \in {"dequeue", "dequeue_post", "force_draw", "release"}

\* C11 witness: stop() runs while draw() has left the handshake held and a
\* deferred draw is still posted
StopWhileHeldCase ==
    /\ wpc = "stop_finish"
    /\ sync = "held"
    /\ m_needsUnlock
    /\ events # << >>

\* Scheduling: time passes; a thread inside a handler goes on with it
\* (the mutex is held only for a short critical section, and the wait of
\* mCoreSyncWaitFrameStart is a timed one); Qt's event loop
\* dispatches an expired timer in every iteration, between posted events,
\* so timeout is delivered even if draws keep being posted
Fairness ==
    /\ WF_vars(Tick)
    /\ WF_vars(EnqueueAppend)
    /\ WF_vars(PostDraw)
    /\ WF_vars(DrawFrameStart)
    /\ WF_vars(SwapQueueTest)
    /\ WF_vars(DequeueReturn)
    /\ WF_vars(DequeuePost)
    /\ WF_vars(DrawRender)
    /\ WF_vars(DrawRelease)
    /\ WF_vars(StopFinish)
    /\ SF_vars(TimerSwap)

\* The producer posts one frame, and markers
LiveBackings == 0..LiveFrames

NextLive ==
    \/ \E s \in Sizes : StartDrawing(s)
    \/ StopDrawing
    \/ StopInvoke
    \/ StopReturn
    \/ StopReset
    \/ PauseDrawing
    \/ PauseInvoke
    \/ UnpauseDrawing
    \/ UnpauseInvoke
    \/ \E s \in Sizes : ResizePainter(s)
    \/ \E b \in LiveBackings : FramePosted(b)
    \/ EnqueueAppend
    \/ PostDraw
    \/ StaleDraw
    \/ DisplayForceDraw
    \/ LockAspectRatio
    \/ LockIntegerScaling
    \/ Filter
    \/ ClearShaders
    \/ ResizeContext
    \/ ResizeContextInvoke
    \/ SetShaders
    \/ GetShaders
    \/ PainterForceDraw
    \/ PainterResizeContext
    \/ PainterSetShaders
    \/ PainterShaders
    \/ PainterClearShaders
    \/ PainterStart
    \/ PainterPause
    \/ PainterUnpause
    \/ PainterResize
    \/ PainterLockAspectRatio
    \/ PainterLockIntegerScaling
    \/ PainterFilter
    \/ DrawBegin
    \/ DrawFrameStart
    \/ DequeuePost
    \/ DequeueReturn
    \/ DrawRender
    \/ DrawRelease
    \/ StopBegin
    \/ StopFinish
    \/ TimerSwap
    \/ SwapQueueTest
    \/ Tick

SpecLive == Init /\ [][NextLive]_vars /\ Fairness

\* the timer is armed while the handshake is held after a draw or a composed
\* frame is pending
ArmedWhileHeld ==
    (m_needsUnlock /\ sync = "held") \/ m_frameReady => timerActive

\* C12: while draw() has left the handshake held (m_needsUnlock set and
\* the end call not yet made), or a composed frame waits to be presented,
\* m_swapTimer is armed; and as long as the process lives
\* the handshake is released and the frame presented or cleared, by swap()
\* on timeout or by stop()
HandshakeReleaseLive ==
    /\ []ArmedWhileHeld
    /\ m_needsUnlock ~> (~m_needsUnlock \/ crashed)
    /\ m_frameReady ~> (~m_frameReady \/ crashed)

\* C12 witness: the handshake is held after a draw, a composed frame is
\* pending, another entry is queued and the timer has not yet expired
HeldAwaitingTimerCase ==
    /\ m_needsUnlock
    /\ m_frameReady
    /\ timerActive /\ timerElapsed < Interval
    /\ m_queue # << >>
    /\ wpc = "idle"

\* a draw() begins with m_queue non-empty while m_needsUnlock is set
DeferralCase == DrawBegin /\ m_needsUnlock /\ m_queue # << >>

\* the step does nothing but post the draw again
Deferred ==
    /\ UNCHANGED << poolVars, painterVars, timerVars, workerVars,
                    backendVars, sync, sincePresent >>
    /\ events' = Append(Tail(events), Ev("draw", 0))

\* dequeue() and the composition that follows never run while the previous
\* frame's handshake is held
NoCompositionWhileHeld ==
    [][ DequeuePost \/ DequeueReturn \/ DrawRender =>
            ~m_needsUnlock /\ sync = "held" ]_vars

\* the deferral, for a draw() whose queue test does not overlap enqueue()
DeferredDrawExactRead ==
    /\ [][(DeferralCase /\ m_mutex # "gui") => Deferred]_vars
    /\ NoCompositionWhileHeld

\* C13: a draw() that runs with m_queue non-empty while m_needsUnlock is
\* set takes nothing from the queue, posts and composes nothing, makes no
\* handshake call, leaves m_queue, m_free and m_frameReady as they are and
\* posts itself again; so dequeue() and the composition that follows never
\* run while the previous frame's handshake is held
DeferredDraw ==
    /\ [][DeferralCase => Deferred]_vars
    /\ NoCompositionWhileHeld

\* a draw is the newest event posted to the painter
DrawScheduled == events' = Append(events, Ev("draw", 0))

\* swap() on timeout, up to mCoreSyncWaitFrameEnd: it presents if and only
\* if m_frameReady was set and releases the handshake
SwapPresents ==
    [][ TimerSwap =>
          /\ (sincePresent' = 0) <=> m_frameReady
          /\ ~m_frameReady => sincePresent' = sincePresent
          /\ ~m_frameReady' /\ sync' = "free"
          /\ events' = events /\ ~timerActive'
          /\ wpc' = "swap_queue"
          /\ UNCHANGED << poolVars, wbuffer, drained, backendVars >>
      ]_vars

\* swap() on timeout, from the queue test on: one of the two branches
SwapEitherOr ==
    [][ SwapQueueTest =>
          /\ ~m_frameReady' /\ ~m_needsUnlock'
          /\ \/ DrawScheduled /\ ~timerActive'
             \/ events' = events /\ timerActive' /\ timerElapsed' = 0
          /\ UNCHANGED << poolVars, wbuffer, drained, backendVars,
                          sincePresent, sync >>
      ]_vars

\* the swap() that stop() calls: it presents if and only if m_frameReady
\* was set, clears both flags and posts a draw exactly when m_queue is
\* non-empty (the timer it restarts is stopped by stop() at once)
SwapInStop ==
    [][ StopFinish =>
          /\ m_frameReady => sincePresent' = 0
          /\ ~m_frameReady => sincePresent' = sincePresent
          /\ ~m_frameReady' /\ ~m_needsUnlock' /\ sync' = "free"
          /\ DrawScheduled <=> m_queue # << >>
      ]_vars

\* the timer's swap() with a queue test that does not overlap enqueue()
SwapStepExactRead ==
    /\ SwapPresents
    /\ SwapEitherOr
    /\ SwapInStop
    /\ [][ (SwapQueueTest /\ m_mutex # "gui") =>
              (DrawScheduled <=> m_queue # << >>) ]_vars

\* C14: every swap() presents if and only if m_frameReady was set, leaves
\* m_frameReady and m_needsUnlock clear, and then does one of two things
\* and not the other: if m_queue is non-empty it posts a draw and leaves the
\* timer stopped, otherwise it restarts the timer and posts nothing
SwapStep ==
    /\ SwapPresents
    /\ SwapEitherOr
    /\ SwapInStop
    /\ [][SwapQueueTest => (DrawScheduled <=> m_queue # << >>)]_vars

\* C15: the worker reads m_queue (the isEmpty tests of draw() and swap()
\* included) only while no other thread is inside a critical section of
\* m_mutex, that is, never while enqueue() is updating the queue
LockDiscipline ==
    [][DrawBegin \/ DrawFrameStart \/ SwapQueueTest => m_mutex # "gui"]_vars

\* C16: m_gl is current on at most one thread at a time: on no thread while
\* the painter thread is being started or the blocking stop returns, on the
\* painter thread alone between start() and the end of stop(), and on the
\* GUI thread alone once stopDrawing() has returned
SingleOwnerContext ==
    /\ Cardinality(glOwner) <= 1
    /\ wpc = "start" => glOwner = {}
    /\ m_started => glOwner = {"worker"}
    /\ wpc = "stop_finish" => glOwner = {"worker"}
    /\ gpc = "ret_stop" => glOwner = {}
    /\ ~m_drawThread => glOwner \subseteq {"gui"}

\* C16 witness: a second session is being started after a stop: the GUI
\* thread, on which stopDrawing() made the context current, has released it
\* and the painter has not yet taken it
RestartHandoverCase ==
    /\ wpc = "start"
    /\ glOwner = {}
    /\ shown # 0
    /\ sincePresent = 0

\* stop() has completed and start() has not run since
Stopped == ~m_started /\ wpc \in {"idle", "start"}

\* C17: from the end of stop() to the next start() m_queue is empty,
\* m_frameReady and m_needsUnlock are clear, the timer is not armed and the
\* handshake is free; and no step taken then (a draw deferred or scheduled
\* by swap() and still posted when stop ran included) dequeues, posts a
\* frame, composes, presents, calls the handshake or uses the released
\* controller
NoStaleWork ==
    /\ [](Stopped =>
            /\ m_queue = << >> /\ m_mutex = "none"
            /\ ~m_frameReady /\ ~m_needsUnlock /\ ~timerActive
            /\ sync = "free" /\ postBuf = NULL
            /\ ~crashed)
    /\ [][Stopped =>
            /\ UNCHANGED << poolVars, backendVars, sync, m_frameReady,
                            m_needsUnlock, timerVars, wbuffer, crashed >>
            /\ sincePresent' >= sincePresent
            /\ wpc' \in {"idle", "start"}
        ]_vars

\* C17 witness: stop() has completed and the session is over while a draw
\* posted again by the deferral path, behind the stop request, is still
\* waiting to be delivered
StaleDrawPendingCase ==
    /\ Stopped
    /\ ~m_drawThread /\ gpc = "idle"
    /\ shown # 0
    /\ events # << >> /\ Head(events).op = "draw"

\* The widget is resized between two sizes and the producer posts a
\* shorter run of frames
ResizeSizes == {1, 2}
ResizeBackings == 0..ResizeFrames

NextResize ==
    \/ \E s \in Sizes : StartDrawing(s)
    \/ StopDrawing
    \/ StopInvoke
    \/ StopReturn
    \/ StopReset
    \/ PauseDrawing
    \/ PauseInvoke
    \/ UnpauseDrawing
    \/ UnpauseInvoke
    \/ \E s \in ResizeSizes : ResizePainter(s)
    \/ \E b \in ResizeBackings : FramePosted(b)
    \/ EnqueueAppend
    \/ PostDraw
    \/ StaleDraw
    \/ DisplayForceDraw
    \/ LockAspectRatio
    \/ LockIntegerScaling
    \/ Filter
    \/ ClearShaders
    \/ ResizeContext
    \/ ResizeContextInvoke
    \/ SetShaders
    \/ GetShaders
    \/ PainterForceDraw
    \/ PainterResizeContext
    \/ PainterSetShaders
    \/ PainterShaders
    \/ PainterClearShaders
    \/ PainterStart
    \/ PainterPause
    \/ PainterUnpause
    \/ PainterResize
    \/ PainterLockAspectRatio
    \/ PainterLockIntegerScaling
    \/ PainterFilter
    \/ DrawBegin
    \/ DrawFrameStart
    \/ DequeuePost
    \/ DequeueReturn
    \/ DrawRender
    \/ DrawRelease
    \/ StopBegin
    \/ StopFinish
    \/ TimerSwap
    \/ SwapQueueTest
    \/ Tick

SpecResize == Init /\ [][NextResize]_vars

\* a resize or a setting change handled by the painter
ConfigStep ==
    \/ PainterResize
    \/ PainterLockAspectRatio
    \/ PainterLockIntegerScaling
    \/ PainterFilter

\* forceDraw() ran in this step: a frame is composed and the timer armed
Redrawn == m_frameReady' /\ timerActive'
NotRedrawn == UNCHANGED << m_frameReady, timerVars >>

\* C18 as claimed: resize() stores the new size, and a resize or setting
\* change handled while the painter is started with no composed frame
\* pending forces a redraw in the same step, active or paused
RedrawWhenIdle ==
    [][ /\ PainterResize => m_size' = Head(events).arg
        /\ (ConfigStep /\ m_started /\ ~m_frameReady) => Redrawn
      ]_vars

\* C18 as amended: resize() stores the new size; a resize or setting change
\* handled while the painter is started and paused forces a redraw in the
\* same step, whether or not a composed frame is pending; handled while it
\* is active (or not started) it forces none
RedrawWhenPaused ==
    [][ /\ PainterResize => m_size' = Head(events).arg
        /\ (ConfigStep /\ m_started /\ ~m_active) => Redrawn
        /\ (ConfigStep /\ ~(m_started /\ ~m_active)) => NotRedrawn
        /\ ConfigStep =>
              UNCHANGED << poolVars, backendVars, workerVars, sync,
                           m_needsUnlock, m_active, m_started >>
      ]_vars

\* C18 witness: no frame was ever posted; the paused painter has handled a
\* resize to the second size and composed a frame for it
PausedResizeCase ==
    /\ Paused
    /\ m_size = 2
    /\ nextFrame = 1 /\ m_queue = << >>
    /\ m_frameReady /\ timerActive /\ timerElapsed = 0
    /\ gpc = "idle"

\* C19: m_queue, markers counted, never holds more entries than the pool
\* has buffers
BacklogBounded == Len(m_queue) <= PoolSize

\* C20: a draw() that finds m_queue non-empty with no handshake held goes
\* on to dequeue() one entry and compose one frame: the branch that only
\* releases the handshake is never taken and dequeue() never finds the
\* queue empty
DrawAlwaysRenders ==
    /\ [](wpc # "release")
    /\ [][DequeuePost => m_queue # << >>]_vars
    /\ [][ (DrawBegin /\ ~m_needsUnlock /\ m_queue # << >>
               /\ m_mutex # "gui") => wpc' = "frame_start" ]_vars
    /\ [][DrawFrameStart => wpc' = "dequeue"]_vars

\* while the painter lives on the GUI thread nothing but draws is posted
\* to it
StaleEventsOnly ==
    ~m_drawThread => \A i \in 1..Len(events) : events[i].op = "draw"

====
